---- MODULE Spec2Model ----
(***************************************************************************)
(* Auto Scroll To First Header (Obsidian plugin).                          *)
(*                                                                         *)
(* The repository holds three iterations of the plugin:                    *)
(*   "v1"  src/main.ts 1-133          waitForCursorAtTopAndScroll: a fixed  *)
(*         delay, padding always, the scroll acts on the leaf active when   *)
(*         the timer fires;                                                 *)
(*   "v2"  src/unnamed/part_000 41-188 handleFileOpen: a fixed delay,       *)
(*         optional padding, the scroll acts on the captured view;          *)
(*   "v3"  src/main.ts 135-415        handleFileOpen: waits with a          *)
(*         MutationObserver until a header is detectable.                   *)
(* A deployment runs one of them: variant is chosen in Init and never      *)
(* changes.                                                                *)
(*                                                                         *)
(* Lengths are in thirds of a CSS pixel, so that clientHeight / 1.5 is an  *)
(* integer.  Line indices are 0-based as in the code; Null stands for      *)
(* null / -1 ("no header line").                                           *)
(***************************************************************************)
EXTENDS Integers, Sequences, FiniteSets, TLC

VARIABLES
    variant,     \* which iteration of the plugin is deployed
    settings,    \* this.settings
    activeLeaf,  \* app.workspace.activeLeaf: "none", "other" (no MarkdownView) or a view
    flashing,    \* a span.is-flashing is present in the workspace
    views,       \* the markdown views: editor document, DOM, cursor, scroll, padding
    passes,      \* one record per document-open / layout-ready event
    probing      \* the pass records carry the measurements of the scroll step

vars == <<variant, settings, activeLeaf, flashing, views, passes, probing>>

(***************************************************************************)
(* Bounds of the model.                                                    *)
(***************************************************************************)
MaxEvents == 2      \* open / layout-ready events in one behaviour
MaxLiveEvents == 1  \* events in one behaviour of the liveness check
MaxRendered == 1    \* .cm-line nodes of a view whose DOM the host mutates
MaxLines == 2       \* lines of a document / rendered .cm-line nodes of a static view
MaxLineLen == 3     \* characters of a line text in the locator inputs

Null == -1

Views == {"A", "B", "N"}      \* "N" is a MarkdownView whose editor is missing
Leaves == {"none", "other"} \cup Views
Variants == {"v1", "v2", "v3"}
Modes == {"source", "live", "preview", "other"}

Min(a, b) == IF a < b THEN a ELSE b
Max(a, b) == IF a > b THEN a ELSE b

(***************************************************************************)
(* Line texts and the heading pattern /^\s*#+\s+/.                         *)
(* A text is a sequence of characters over {"#", " ", "a"}: '#', a         *)
(* whitespace character and any other character.                           *)
(***************************************************************************)
Chars == {"#", " ", "a"}

IsSpace(c) == c = " "
IsHash(c) == c = "#"

RECURSIVE SkipSpaces(_, _)
SkipSpaces(text, pos) ==
    IF pos <= Len(text) /\ IsSpace(text[pos]) THEN SkipSpaces(text, pos + 1) ELSE pos

RECURSIVE SkipHashes(_, _)
SkipHashes(text, pos) ==
    IF pos <= Len(text) /\ IsHash(text[pos]) THEN SkipHashes(text, pos + 1) ELSE pos

\* /^\s*#+/.test(text): the pattern without its trailing \s+ (a plausible slip).
HeaderRegexNoTrailingSpace(text) ==
    LET p1 == SkipSpaces(text, 1)
        p2 == SkipHashes(text, p1)
    IN  p2 > p1

\* /^\s*#+\s+/.test(text)
HeaderRegexTest(text) ==
    LET p1 == SkipSpaces(text, 1)
        p2 == SkipHashes(text, p1)
    IN  /\ p2 > p1
        /\ p2 <= Len(text)
        /\ IsSpace(text[p2])

\* the scan that keeps the last matching line instead of returning at the first.
ScanRegexLast(texts, i) ==
    IF \E k \in i..Len(texts) : HeaderRegexTest(texts[k])
    THEN (CHOOSE k \in i..Len(texts) :
              /\ HeaderRegexTest(texts[k])
              /\ \A m \in (k + 1)..Len(texts) : ~HeaderRegexTest(texts[m])) - 1
    ELSE Null

\* for (i = 0; i < n; i++) if (regex.test(text_i)) return i;  return null
RECURSIVE ScanRegex(_, _)
ScanRegex(texts, i) ==
    IF i > Len(texts) THEN Null
    ELSE IF HeaderRegexTest(texts[i]) THEN i - 1
    ELSE ScanRegex(texts, i + 1)

\* the textContent of each .cm-line node
TextContents(lines) == [i \in 1..Len(lines) |-> lines[i].text]

\* for (i...) if (allLines[i] === headerLines[0]) return i
RECURSIVE ScanMarked(_, _)
ScanMarked(lines, i) ==
    IF i > Len(lines) THEN Null
    ELSE IF lines[i].hdr THEN i - 1
    ELSE ScanMarked(lines, i + 1)

\* findFirstHeaderLine without the renderer's classification: the regex scan alone.
findFirstHeaderLineRegexOnly(lines) == ScanRegex(TextContents(lines), 1)

\* findFirstHeaderLine(editorEl): lines are the .cm-line nodes of editorEl,
\* hdr says that a node carries the class HyperMD-header.
findFirstHeaderLine(lines) ==
    LET marked == IF \E i \in 1..Len(lines) : lines[i].hdr
                  THEN ScanMarked(lines, 1) ELSE Null
    IN  IF marked # Null THEN marked ELSE ScanRegex(TextContents(lines), 1)

\* editorEl.querySelector('.cm-line.HyperMD-header') || lines.some(regex)
hasHeader(lines) ==
    \/ \E i \in 1..Len(lines) : lines[i].hdr
    \/ \E i \in 1..Len(lines) : HeaderRegexTest(lines[i].text)

(***************************************************************************)
(* A markdown view.                                                        *)
(*   hasEditor        view.editor is set                                   *)
(*   mode             view.getMode()                                       *)
(*   doc              the editor's lines (editor.getLine), never empty     *)
(*   cmLines          the rendered .cm-line nodes of the editor element    *)
(*   cursor           the editor's cursor [line, ch]                       *)
(*   scrollTop        scroll offset of the editor's scroller               *)
(*   previewScrollTop scroll offset of the preview surface                 *)
(*   editorPad        padding-bottom of .cm-sizer (v3) / .cm-content (v1,  *)
(*                    v2); previewPad that of .markdown-preview-view       *)
(*   clientHeight     clientHeight of the content viewport, in pixels      *)
(*   has*             presence of the DOM elements the code queries        *)
(*   strictGetLine    the host's editor.getLine(n) throws for a line the   *)
(*                    document does not have (otherwise it yields "")      *)
(*   previewHeader    index of the first h1..h6 block of the preview, or   *)
(*                    Null; previewCmLines the number of                   *)
(*                    '.markdown-preview-view .cm-line' nodes              *)
(***************************************************************************)
LineHeight == 3                 \* one rendered line: 1px, in thirds
Thirds(px) == 3 * px

EditorContentHeight(view) == Len(view.cmLines) * LineHeight + view.editorPad
PreviewContentHeight(view) == Len(view.doc) * LineHeight + view.previewPad
ViewportHeight(view) == Thirds(view.clientHeight)

\* the browser clamps a requested offset to [0, scrollHeight - clientHeight]
ClampScroll(offset, contentHeight, viewportHeight) ==
    Max(0, Min(offset, Max(0, contentHeight - viewportHeight)))

LineTop(lineNumber) == lineNumber * LineHeight

\* element.scrollIntoView({ block: 'start' }) on the editor's line lineNumber
ScrollEditorIntoView(view, lineNumber) ==
    [view EXCEPT !.scrollTop =
        ClampScroll(LineTop(lineNumber), EditorContentHeight(view), ViewportHeight(view))]

\* scroller.scrollTo({ top: offset })
ScrollerScrollTo(view, offset) ==
    [view EXCEPT !.scrollTop =
        ClampScroll(offset, EditorContentHeight(view), ViewportHeight(view))]

\* element.scrollIntoView({ block: 'start' }) on a block of the preview
ScrollPreviewIntoView(view, blockNumber) ==
    [view EXCEPT !.previewScrollTop =
        ClampScroll(LineTop(blockNumber), PreviewContentHeight(view), ViewportHeight(view))]

\* lines[lineNumber] is a node
LineResolves(view, lineNumber) == lineNumber >= 0 /\ lineNumber < Len(view.cmLines)

(***************************************************************************)
(* PaddingAdjuster.                                                        *)
(***************************************************************************)
\* v3 with the padding added to the present one instead of assigned (a slip).
adjustPaddingAccumulating(view) ==
    IF view.hasViewContent
    THEN LET editorHeight == Max(view.clientHeight, 1)
             padding == (Thirds(editorHeight) * 10) \div 15
         IN  [view EXCEPT
                 !.editorPad = IF view.hasCmSizer THEN @ + padding ELSE @,
                 !.previewPad = IF view.hasPreviewView THEN @ + padding ELSE @]
    ELSE view

\* adjustPadding without the test for .cm-sizer.
adjustPaddingWithoutSizerTest(view) ==
    IF view.hasViewContent
    THEN LET editorHeight == Max(view.clientHeight, 1)
             padding == (Thirds(editorHeight) * 10) \div 15
         IN  [view EXCEPT
                 !.editorPad = padding,
                 !.previewPad = IF view.hasPreviewView THEN padding ELSE @]
    ELSE view

\* v3: adjustPadding(view); padding = Math.max(clientHeight, 1) / 1.5
adjustPadding(view) ==
    IF view.hasViewContent
    THEN LET editorHeight == Max(view.clientHeight, 1)
             padding == (Thirds(editorHeight) * 10) \div 15
         IN  [view EXCEPT
                 !.editorPad = IF view.hasCmSizer THEN padding ELSE @,
                 !.previewPad = IF view.hasPreviewView THEN padding ELSE @]
    ELSE view

\* v1, v2: cmContent.style.paddingBottom = parent.clientHeight px
adjustPaddingFull(view) ==
    IF view.hasCmContent
    THEN [view EXCEPT !.editorPad = Thirds(view.clientHeight)]
    ELSE view

(***************************************************************************)
(* ViewPositioner.  Each operator yields [view, fx]: the view afterwards   *)
(* and the sequence of effects it had: "cursor" (setCursor), "scroll" (a   *)
(* scroll primitive was invoked), "throw" (an exception left the           *)
(* operator).                                                              *)
(***************************************************************************)
Out(view, fx) == [view |-> view, fx |-> fx]

\* scrollEditorLineIntoView without the guard on lines[lineNumber].
scrollEditorLineIntoViewUnguarded(view, lineNumber, smooth) ==
    IF LineResolves(view, lineNumber)
    THEN Out(ScrollEditorIntoView(view, lineNumber), <<"scroll">>)
    ELSE Out(view, <<"throw">>)

\* v3 scrollEditorLineIntoView(view, lineNumber); v1/v2 call it with smooth
\* FALSE (behavior: 'auto').
scrollEditorLineIntoView(view, lineNumber, smooth) ==
    IF LineResolves(view, lineNumber)
    THEN IF smooth /\ view.hasScroller
         THEN LET targetRectTop == LineTop(lineNumber) - view.scrollTop
                  scrollerRectTop == 0
                  offset == targetRectTop - scrollerRectTop + view.scrollTop
              IN  Out(ScrollerScrollTo(view, offset), <<"scroll">>)
         ELSE Out(ScrollEditorIntoView(view, lineNumber), <<"scroll">>)
    ELSE Out(view, << >>)

\* editor.setCursor({ line, ch }); the editor clamps the line to the document
SetCursor(view, line, ch) ==
    [view EXCEPT !.cursor = [line |-> Min(line, Len(view.doc) - 1), ch |-> ch]]

\* v3 scrollEditorToFirstHeader with the cursor moved whatever the setting says.
scrollEditorToFirstHeaderAlwaysCursor(view, st) ==
    LET headerLine == findFirstHeaderLine(view.cmLines)
    IN  IF headerLine = Null THEN Out(view, << >>)
        ELSE IF headerLine >= Len(view.doc) /\ view.strictGetLine
             THEN Out(view, <<"throw">>)
             ELSE LET len == IF headerLine < Len(view.doc)
                             THEN Len(view.doc[headerLine + 1]) ELSE 0
                      moved == SetCursor(view, headerLine, len)
                      r == scrollEditorLineIntoView(moved, headerLine, st.enableSmoothScroll)
                  IN  Out(r.view, <<"cursor">> \o r.fx)

\* v3 scrollEditorToFirstHeader(view).  editor.getLine(n) of a line the
\* document does not have either throws or yields "": view.strictGetLine.
scrollEditorToFirstHeader(view, st) ==
    LET headerLine == findFirstHeaderLine(view.cmLines)
    IN  IF headerLine = Null THEN Out(view, << >>)
        ELSE IF st.moveCursorToFirstHeader
             THEN IF headerLine >= Len(view.doc) /\ view.strictGetLine
                  THEN Out(view, <<"throw">>)
                  ELSE LET len == IF headerLine < Len(view.doc)
                                  THEN Len(view.doc[headerLine + 1]) ELSE 0
                           moved == SetCursor(view, headerLine, len)
                           r == scrollEditorLineIntoView(moved, headerLine,
                                                         st.enableSmoothScroll)
                       IN  Out(r.view, <<"cursor">> \o r.fx)
             ELSE scrollEditorLineIntoView(view, headerLine, st.enableSmoothScroll)

\* v1, v2: the scan of the editor's lines, setCursor({ line: i, ch: 0 }), scroll
scrollEditorToFirstHeaderByDoc(view) ==
    LET headerLine == ScanRegex(view.doc, 1)
    IN  IF headerLine = Null THEN Out(view, << >>)
        ELSE LET moved == SetCursor(view, headerLine, 0)
                 r == scrollEditorLineIntoView(moved, headerLine, FALSE)
             IN  Out(r.view, <<"cursor">> \o r.fx)

\* v3 scrollPreviewToFirstHeader(view)
scrollPreviewToFirstHeader(view) ==
    IF view.previewHeader # Null
    THEN Out(ScrollPreviewIntoView(view, view.previewHeader), <<"scroll">>)
    ELSE LET headerLine == findFirstHeaderLine(view.cmLines)
         IN  IF headerLine # Null /\ headerLine < view.previewCmLines
             THEN Out(ScrollPreviewIntoView(view, headerLine), <<"scroll">>)
             ELSE Out(view, << >>)

\* v1, v2: the preview branch has no fallback
scrollPreviewToFirstHeaderNoFallback(view) ==
    IF view.previewHeader # Null
    THEN Out(ScrollPreviewIntoView(view, view.previewHeader), <<"scroll">>)
    ELSE Out(view, << >>)

\* scrollToFirstHeader that takes every mode but 'preview' for an editing mode.
scrollToFirstHeaderEditorByDefault(var, view, st) ==
    IF view.mode = "preview"
    THEN IF var = "v3" THEN scrollPreviewToFirstHeader(view)
         ELSE scrollPreviewToFirstHeaderNoFallback(view)
    ELSE IF var = "v3" THEN scrollEditorToFirstHeader(view, st)
         ELSE scrollEditorToFirstHeaderByDoc(view)

\* scrollToFirstHeader(view): the dispatch on the view's mode
scrollToFirstHeader(var, view, st) ==
    IF view.mode \in {"source", "live"}
    THEN IF var = "v3" THEN scrollEditorToFirstHeader(view, st)
         ELSE scrollEditorToFirstHeaderByDoc(view)
    ELSE IF view.mode = "preview"
    THEN IF var = "v3" THEN scrollPreviewToFirstHeader(view)
         ELSE scrollPreviewToFirstHeaderNoFallback(view)
    ELSE Out(view, << >>)

(***************************************************************************)
(* OpenHandler.  One pass record per event:                                *)
(*   status     "none" (the event has not arrived), "rejected" (the        *)
(*              handler returned at once), "accepted"                      *)
(*   leaf       the active leaf when the event arrived                     *)
(*   view       the view captured by the handler's closure ("none": none)  *)
(*   connected  the pass's MutationObserver is observing                   *)
(*   pending    mutation records are queued for the observer               *)
(*   delays     pending setTimeout callbacks of the fixed delay (v1, v2)   *)
(*   rafs       pending requestAnimationFrame callbacks (v3)               *)
(*   timers     pending setTimeout callbacks that scroll (v3)              *)
(*   log        what the pass did, in order                                *)
(*   target     the view the scroll step acted on ("none": none)           *)
(*   waitFlash  whether the flashing indicator was present when the wait   *)
(*              completed: "unset" (not completed yet), "yes", "no"        *)
(*   viaCallback the wait was completed by the observer's callback         *)
(* and, when the run is probing:                                           *)
(*   headerAtScroll a header was detectable in the target's editor element *)
(*              when the scroll step ran                                   *)
(*   activeAtScroll the active leaf when the scroll step ran               *)
(*   flashAtScroll whether the flashing indicator was present then         *)
(*   scanned    the .cm-line nodes of the target when the scroll step ran  *)
(*   alone      every earlier pass had finished when the event arrived     *)
(*   after      the view's scroll offsets, cursor and paddings right after *)
(*              the scroll step                                            *)
(***************************************************************************)
Passes == 1..MaxEvents

NoPass == [status |-> "none", leaf |-> "none", view |-> "none", connected |-> FALSE, pending |-> FALSE,
           delays |-> 0, rafs |-> 0, timers |-> 0, log |-> << >>,
           target |-> "none", waitFlash |-> "unset", viaCallback |-> FALSE,
           headerAtScroll |-> FALSE, activeAtScroll |-> "none", scanned |-> << >>,
           flashAtScroll |-> FALSE,
           alone |-> FALSE,
           after |-> << >>]

\* a measurement is taken when the run is probing
Probe(value, old) == IF probing THEN value ELSE old

\* the wait of a pass completes now: note whether the indicator is present
WaitDone(pass) == [pass EXCEPT !.waitFlash = IF flashing THEN "yes" ELSE "no"]

InLog(pass, what) == \E i \in 1..Len(pass.log) : pass.log[i] = what
CountLog(pass, what) == Cardinality({i \in 1..Len(pass.log) : pass.log[i] = what})

Suppressed(pass) == InLog(pass, "suppressed")
Executed(pass) == InLog(pass, "scrollToFirstHeader")
Finished(pass) ==
    /\ pass.status # "none"
    /\ ~pass.connected
    /\ pass.delays = 0 /\ pass.rafs = 0 /\ pass.timers = 0

Snapshot(view) ==
    <<view.scrollTop, view.previewScrollTop, view.cursor, view.editorPad, view.previewPad>>

\* getActiveMarkdownLeaf(): null without a leaf or with a view that is not a
\* MarkdownView
getActiveMarkdownLeaf(leaf) == IF leaf \in {"none", "other"} THEN "none" ELSE leaf

\* the handler's guards without the test of view.editor.
AcceptsOpenWithoutEditor(leaf) == getActiveMarkdownLeaf(leaf) # "none"

\* the handler's guards: if (!leaf) return; if (!editor) return
AcceptsOpen(leaf) ==
    /\ getActiveMarkdownLeaf(leaf) # "none"
    /\ views[getActiveMarkdownLeaf(leaf)].hasEditor

\* isFlashing()
isFlashing == flashing

\* a microtask (an observer callback) is due: it runs before any other task
MicrotaskDue == \E p \in Passes : passes[p].connected /\ passes[p].pending

\* the padding assignment happens: the elements adjustPadding needs exist
PaddingApplies(var, view) ==
    IF var = "v3"
    THEN view.hasViewContent /\ (view.hasCmSizer \/ view.hasPreviewView)
    ELSE view.hasCmContent

\* callScroll() without the isFlashing() test.
callScrollIgnoringFlash(pass, view) ==
    IF settings.enableAdjustPaddingForNonScrollable
    THEN [pass |-> [pass EXCEPT
                       !.log = @ \o <<"callScroll", "adjustPadding">>
                                 \o (IF PaddingApplies("v3", view) THEN <<"pad">> ELSE << >>),
                       !.rafs = @ + 1],
          view |-> adjustPadding(view)]
    ELSE [pass |-> [pass EXCEPT !.log = @ \o <<"callScroll">>, !.timers = @ + 1],
          view |-> view]

\* callScroll() that starts the timer at once, without requestAnimationFrame.
callScrollWithoutFrame(pass, view) ==
    IF isFlashing
    THEN [pass |-> [pass EXCEPT !.log = @ \o <<"callScroll", "suppressed">>],
          view |-> view]
    ELSE IF settings.enableAdjustPaddingForNonScrollable
    THEN [pass |-> [pass EXCEPT
                       !.log = @ \o <<"callScroll", "adjustPadding">>
                                 \o (IF PaddingApplies("v3", view) THEN <<"pad">> ELSE << >>),
                       !.timers = @ + 1],
          view |-> adjustPadding(view)]
    ELSE [pass |-> [pass EXCEPT !.log = @ \o <<"callScroll">>, !.timers = @ + 1],
          view |-> view]

\* v3 callScroll(): the pass and the view afterwards
callScroll(pass, view) ==
    IF isFlashing
    THEN [pass |-> [pass EXCEPT !.log = @ \o <<"callScroll", "suppressed">>],
          view |-> view]
    ELSE IF settings.enableAdjustPaddingForNonScrollable
    THEN [pass |-> [pass EXCEPT
                       !.log = @ \o <<"callScroll", "adjustPadding">>
                                 \o (IF PaddingApplies("v3", view) THEN <<"pad">> ELSE << >>),
                       !.rafs = @ + 1],
          view |-> adjustPadding(view)]
    ELSE [pass |-> [pass EXCEPT !.log = @ \o <<"callScroll">>, !.timers = @ + 1],
          view |-> view]

\* v3 handleFileOpen() with observer.disconnect() left out of the synchronous path.
handleFileOpenKeepObserving(p) ==
    LET v == activeLeaf
        observing == [passes[p] EXCEPT !.status = "accepted", !.leaf = v, !.view = v,
                         !.connected = TRUE, !.log = <<"observe">>,
                         !.alone = Probe((\A q \in Passes \ {p} :
                                       passes[q].status = "none" \/ Finished(passes[q])), @)]
    IN  IF hasHeader(views[v].cmLines)
        THEN LET r == callScroll(WaitDone(observing), views[v])
             IN  /\ passes' = [passes EXCEPT ![p] = r.pass]
                 /\ views' = [views EXCEPT ![v] = r.view]
        ELSE /\ passes' = [passes EXCEPT ![p] = observing]
             /\ UNCHANGED views

\* v3 handleFileOpen() that first drops what earlier passes have pending (a
\* debounce: clearTimeout, cancelAnimationFrame, disconnect).
handleFileOpenCancelling(p) ==
    LET v == activeLeaf
        cancelled == [q \in Passes |->
                         IF q = p THEN passes[q]
                         ELSE [passes[q] EXCEPT !.connected = FALSE, !.pending = FALSE,
                                                !.rafs = 0, !.timers = 0]]
        observing == [passes[p] EXCEPT !.status = "accepted", !.leaf = v, !.view = v,
                         !.connected = TRUE, !.log = <<"observe">>,
                         !.alone = Probe((\A q \in Passes \ {p} :
                                       passes[q].status = "none" \/ Finished(passes[q])), @)]
    IN  IF hasHeader(views[v].cmLines)
        THEN LET disconnected == [observing EXCEPT !.connected = FALSE, !.pending = FALSE,
                                                   !.log = @ \o <<"disconnect">>]
                 r == callScroll(WaitDone(disconnected), views[v])
             IN  /\ passes' = [cancelled EXCEPT ![p] = r.pass]
                 /\ views' = [views EXCEPT ![v] = r.view]
        ELSE /\ passes' = [cancelled EXCEPT ![p] = observing]
             /\ UNCHANGED views

\* v3 handleFileOpen(), after its guards
handleFileOpen(p) ==
    LET v == activeLeaf
        observing == [passes[p] EXCEPT !.status = "accepted", !.leaf = v, !.view = v,
                         !.connected = TRUE, !.log = <<"observe">>,
                         !.alone = Probe((\A q \in Passes \ {p} :
                                       passes[q].status = "none" \/ Finished(passes[q])), @)]
    IN  IF hasHeader(views[v].cmLines)
        THEN LET disconnected == [observing EXCEPT !.connected = FALSE, !.pending = FALSE,
                                                   !.log = @ \o <<"disconnect">>]
                 r == callScroll(WaitDone(disconnected), views[v])
             IN  /\ passes' = [passes EXCEPT ![p] = r.pass]
                 /\ views' = [views EXCEPT ![v] = r.view]
        ELSE /\ passes' = [passes EXCEPT ![p] = observing]
             /\ UNCHANGED views

\* v1 waitForCursorAtTopAndScroll(), v2 handleFileOpen(), after their guards
handleFileOpenFixedDelay(p) ==
    /\ passes' = [passes EXCEPT ![p] =
           [@ EXCEPT !.status = "accepted", !.leaf = activeLeaf, !.view = activeLeaf,
                     !.delays = 1,
                     !.alone = Probe((\A q \in Passes \ {p} :
                                   passes[q].status = "none" \/ Finished(passes[q])), @)]]
    /\ UNCHANGED views

\* the host delivers 'file-open' or onLayoutReady to the handler
Open(p) ==
    /\ passes[p].status = "none"
    /\ \A q \in Passes : q < p => passes[q].status # "none"
    /\ ~MicrotaskDue
    /\ IF AcceptsOpen(activeLeaf)
       THEN IF variant = "v3" THEN handleFileOpen(p) ELSE handleFileOpenFixedDelay(p)
       ELSE /\ passes' = [passes EXCEPT ![p] = [@ EXCEPT !.status = "rejected", !.leaf = activeLeaf]]
            /\ UNCHANGED views

FileOpen ==
    /\ \E p \in Passes : Open(p)
    /\ UNCHANGED <<probing, variant, settings, activeLeaf, flashing>>

\* onLayoutReady(() => this.handleFileOpen()): the notification comes once, as
\* the first event the handler sees; the handler treats it as a 'file-open'
LayoutReady ==
    /\ \A q \in Passes : passes[q].status = "none"
    /\ Open(1)
    /\ UNCHANGED <<probing, variant, settings, activeLeaf, flashing>>

\* the MutationObserver callback that calls callScroll() on any mutation,
\* without looking for a header again.
ObserverCallbackAnyMutation(p) ==
    /\ passes[p].connected /\ passes[p].pending
    /\ LET v == passes[p].view
           disconnected == [passes[p] EXCEPT !.pending = FALSE, !.connected = FALSE,
                                             !.log = @ \o <<"disconnect">>]
           r == callScroll(WaitDone([disconnected EXCEPT !.viaCallback = TRUE]), views[v])
       IN  /\ passes' = [passes EXCEPT ![p] = r.pass]
           /\ views' = [views EXCEPT ![v] = r.view]
    /\ UNCHANGED <<probing, variant, settings, activeLeaf, flashing>>

\* the MutationObserver callback that disconnects on every delivery, header or
\* not.
ObserverCallbackDisconnectingFirst(p) ==
    /\ passes[p].connected /\ passes[p].pending
    /\ LET v == passes[p].view
           disconnected == [passes[p] EXCEPT !.pending = FALSE, !.connected = FALSE,
                                             !.log = @ \o <<"disconnect">>]
       IN  IF hasHeader(views[v].cmLines)
           THEN LET r == callScroll(WaitDone([disconnected EXCEPT !.viaCallback = TRUE]),
                                    views[v])
                IN  /\ passes' = [passes EXCEPT ![p] = r.pass]
                    /\ views' = [views EXCEPT ![v] = r.view]
           ELSE /\ passes' = [passes EXCEPT ![p] = disconnected]
                /\ UNCHANGED views
    /\ UNCHANGED <<probing, variant, settings, activeLeaf, flashing>>

\* the MutationObserver callback of pass p (v3)
ObserverCallback(p) ==
    /\ passes[p].connected /\ passes[p].pending
    /\ LET v == passes[p].view
           delivered == [passes[p] EXCEPT !.pending = FALSE]
       IN  IF hasHeader(views[v].cmLines)
           THEN LET disconnected == [delivered EXCEPT !.connected = FALSE,
                                                      !.log = @ \o <<"disconnect">>]
                    r == callScroll(WaitDone([disconnected EXCEPT !.viaCallback = TRUE]),
                                    views[v])
                IN  /\ passes' = [passes EXCEPT ![p] = r.pass]
                    /\ views' = [views EXCEPT ![v] = r.view]
           ELSE /\ passes' = [passes EXCEPT ![p] = delivered]
                /\ UNCHANGED views
    /\ UNCHANGED <<probing, variant, settings, activeLeaf, flashing>>

\* the requestAnimationFrame callback without its setTimeout.
RafFireWithoutTimer(p) ==
    /\ passes[p].rafs > 0
    /\ ~MicrotaskDue
    /\ passes' = [passes EXCEPT ![p] = [@ EXCEPT !.rafs = @ - 1, !.log = @ \o <<"raf">>]]
    /\ UNCHANGED <<probing, variant, settings, activeLeaf, flashing, views>>

\* the requestAnimationFrame callback of pass p (v3): it starts the timer
RafFire(p) ==
    /\ passes[p].rafs > 0
    /\ ~MicrotaskDue
    /\ passes' = [passes EXCEPT ![p] =
           [@ EXCEPT !.rafs = @ - 1, !.timers = @ + 1, !.log = @ \o <<"raf">>]]
    /\ UNCHANGED <<probing, variant, settings, activeLeaf, flashing, views>>

\* the setTimeout callback that looks the active leaf up when it fires, as the
\* first iteration of the plugin did.
TimerFireActiveLeaf(p) ==
    /\ passes[p].timers > 0
    /\ ~MicrotaskDue
    /\ LET a == getActiveMarkdownLeaf(activeLeaf)
       IN  IF a = "none" \/ ~views[a].hasEditor
           THEN /\ passes' = [passes EXCEPT ![p] =
                       [@ EXCEPT !.timers = @ - 1,
                                 !.log = @ \o <<"timer", "scrollToFirstHeader">>,
                                 !.flashAtScroll = Probe(flashing, @),
                                 !.activeAtScroll = Probe(activeLeaf, @)]]
                /\ UNCHANGED views
           ELSE LET r == scrollToFirstHeader("v3", views[a], settings)
                IN  /\ views' = [views EXCEPT ![a] = r.view]
                    /\ passes' = [passes EXCEPT ![p] =
                           [@ EXCEPT !.timers = @ - 1,
                                     !.log = @ \o <<"timer", "scrollToFirstHeader">> \o r.fx,
                                     !.target = a,
                                     !.flashAtScroll = Probe(flashing, @),
                                     !.activeAtScroll = Probe(activeLeaf, @),
                                     !.headerAtScroll = Probe(hasHeader(views[a].cmLines), @),
                                     !.scanned = Probe(views[a].cmLines, @),
                                     !.after = Probe(Snapshot(r.view), @)]]
    /\ UNCHANGED <<probing, variant, settings, activeLeaf, flashing>>

\* the setTimeout callback that tests isFlashing() again before it scrolls.
TimerFireRecheckingFlash(p) ==
    /\ passes[p].timers > 0
    /\ ~MicrotaskDue
    /\ IF isFlashing
       THEN /\ passes' = [passes EXCEPT ![p] =
                   [@ EXCEPT !.timers = @ - 1, !.log = @ \o <<"timer">>]]
            /\ UNCHANGED views
       ELSE LET v == passes[p].view
                r == scrollToFirstHeader("v3", views[v], settings)
            IN  /\ views' = [views EXCEPT ![v] = r.view]
                /\ passes' = [passes EXCEPT ![p] =
                       [@ EXCEPT !.timers = @ - 1,
                                 !.log = @ \o <<"timer", "scrollToFirstHeader">> \o r.fx,
                                 !.target = v,
                                 !.flashAtScroll = Probe(flashing, @),
                                 !.activeAtScroll = Probe(activeLeaf, @),
                                 !.headerAtScroll = Probe(hasHeader(views[v].cmLines), @),
                                 !.scanned = Probe(views[v].cmLines, @),
                                 !.after = Probe(Snapshot(r.view), @)]]
    /\ UNCHANGED <<probing, variant, settings, activeLeaf, flashing>>

\* the setTimeout callback of pass p that scrolls (v3)
TimerFire(p) ==
    /\ passes[p].timers > 0
    /\ ~MicrotaskDue
    /\ LET v == passes[p].view
           r == scrollToFirstHeader("v3", views[v], settings)
       IN  /\ views' = [views EXCEPT ![v] = r.view]
           /\ passes' = [passes EXCEPT ![p] =
                  [@ EXCEPT !.timers = @ - 1,
                            !.log = @ \o <<"timer", "scrollToFirstHeader">> \o r.fx,
                            !.target = v,
                            !.flashAtScroll = Probe(flashing, @),
                            !.activeAtScroll = Probe(activeLeaf, @),
                            !.headerAtScroll = Probe(hasHeader(views[v].cmLines), @),
                            !.scanned = Probe(views[v].cmLines, @),
                            !.after = Probe(Snapshot(r.view), @)]]
    /\ UNCHANGED <<probing, variant, settings, activeLeaf, flashing>>

\* v2: the body of the setTimeout callback after the flashing test
delayedScroll(pass) ==
    LET v == pass.view
        pad == settings.enableAdjustPaddingForNonScrollable
        padded == IF pad THEN adjustPaddingFull(views[v]) ELSE views[v]
        r == scrollToFirstHeader("v2", padded, settings)
    IN  [views |-> [views EXCEPT ![v] = r.view],
         pass |-> [pass EXCEPT
                      !.log = @ \o (IF pad THEN <<"adjustPadding">> ELSE << >>)
                                \o (IF pad /\ PaddingApplies("v2", views[v])
                                    THEN <<"pad">> ELSE << >>)
                                \o <<"scrollToFirstHeader">> \o r.fx,
                      !.target = v,
                            !.flashAtScroll = Probe(flashing, @),
                            !.activeAtScroll = Probe(activeLeaf, @),
                      !.headerAtScroll = Probe(hasHeader(views[v].cmLines), @),
                      !.scanned = Probe(views[v].cmLines, @),
                      !.after = Probe(Snapshot(r.view), @)]]

\* v1: the body of the setTimeout callback after the flashing test; the padding
\* goes to the captured view, scrollToFirstHeader() looks the active leaf up anew
delayedScrollActiveLeaf(pass) ==
    LET v == pass.view
        padded == [views EXCEPT ![v] = adjustPaddingFull(views[v])]
        padLog == <<"adjustPadding">>
                  \o (IF PaddingApplies("v1", views[v]) THEN <<"pad">> ELSE << >>)
                  \o <<"scrollToFirstHeader">>
        a == getActiveMarkdownLeaf(activeLeaf)
    IN  IF a = "none"
        THEN [views |-> padded,
              pass |-> [pass EXCEPT !.log = @ \o padLog,
                                    !.flashAtScroll = Probe(flashing, @),
                                    !.activeAtScroll = Probe(activeLeaf, @)]]
        ELSE IF ~padded[a].hasEditor /\ padded[a].mode \in {"source", "live"}
        THEN [views |-> padded,
              pass |-> [pass EXCEPT !.log = @ \o padLog \o <<"throw">>,
                                    !.target = a,
                                    !.flashAtScroll = Probe(flashing, @),
                                    !.activeAtScroll = Probe(activeLeaf, @),
                                    !.headerAtScroll = Probe(hasHeader(views[a].cmLines), @)]]
        ELSE LET r == scrollToFirstHeader("v1", padded[a], settings)
             IN  [views |-> [padded EXCEPT ![a] = r.view],
                  pass |-> [pass EXCEPT !.log = @ \o padLog \o r.fx,
                                        !.target = a,
                                        !.flashAtScroll = Probe(flashing, @),
                                        !.activeAtScroll = Probe(activeLeaf, @),
                                        !.headerAtScroll = Probe(hasHeader(views[a].cmLines), @),
                                        !.scanned = Probe(views[a].cmLines, @),
                                        !.after = Probe(Snapshot(r.view), @)]]

\* the setTimeout callback of the fixed delay of pass p (v1, v2)
DelayFire(p) ==
    /\ passes[p].delays > 0
    /\ ~MicrotaskDue
    /\ LET fired == WaitDone([passes[p] EXCEPT !.delays = @ - 1, !.log = @ \o <<"timer">>])
       IN  IF isFlashing
           THEN /\ passes' = [passes EXCEPT ![p] =
                       [fired EXCEPT !.log = @ \o <<"suppressed">>]]
                /\ UNCHANGED views
           ELSE LET r == IF variant = "v1" THEN delayedScrollActiveLeaf(fired)
                         ELSE delayedScroll(fired)
                IN  /\ passes' = [passes EXCEPT ![p] = r.pass]
                    /\ views' = r.views
    /\ UNCHANGED <<probing, variant, settings, activeLeaf, flashing>>

(***************************************************************************)
(* The host: DOM mutations of a view's editor element, the flashing        *)
(* indicator, the active leaf.                                             *)
(***************************************************************************)
Plain == <<"a">>
Heading == <<"#", " ", "a">>
Tag == <<"#", "a">>
HostTexts == {Plain, Heading, Tag}

\* the .cm-line nodes the host renders: a plain line, a line whose text reads
\* as a heading but is not classified as one (source mode, a code block), a
\* hashtag line, and a classified heading whose marks are hidden
HostNodes ==
    {[text |-> t, hdr |-> FALSE] : t \in HostTexts} \cup {[text |-> Plain, hdr |-> TRUE]}

\* the nodes of a view the host is rendering while a pass may be waiting
RenderedNodes ==
    {[text |-> Plain, hdr |-> FALSE], [text |-> Heading, hdr |-> FALSE],
     [text |-> Plain, hdr |-> TRUE]}

SeqsUpTo(S, n) == UNION {[1..k -> S] : k \in 0..n}

\* observer.observe(editorEl, { childList: true, subtree: true, characterData: true })
ObservedKinds == {"childList", "characterData"}

\* the host changes the .cm-line nodes of view v; observers of v's editor
\* element get a record when the kind of mutation is one they observe
Mutate(v, lines, kind) ==
    /\ views' = [views EXCEPT ![v] =
           [@ EXCEPT !.cmLines = lines,
                     !.scrollTop = ClampScroll(@, Len(lines) * LineHeight + views[v].editorPad,
                                               ViewportHeight(views[v]))]]
    /\ passes' = [p \in Passes |->
           IF passes[p].connected /\ passes[p].view = v /\ kind \in ObservedKinds
           THEN [passes[p] EXCEPT !.pending = TRUE]
           ELSE passes[p]]
    /\ UNCHANGED <<probing, variant, settings, activeLeaf, flashing>>

AddLine ==
    \E v \in {"A"}, n \in RenderedNodes :
        /\ Len(views[v].cmLines) < MaxRendered
        /\ Mutate(v, Append(views[v].cmLines, n), "childList")

RemoveLine ==
    \E v \in {"A"} :
        /\ Len(views[v].cmLines) > 0
        /\ Mutate(v, SubSeq(views[v].cmLines, 1, Len(views[v].cmLines) - 1), "childList")

EditText ==
    \E v \in {"A"} :
        \E i \in 1..Len(views[v].cmLines), t \in {Plain, Heading} :
            /\ t # views[v].cmLines[i].text
            /\ [views[v].cmLines[i] EXCEPT !.text = t] \in RenderedNodes
            /\ Mutate(v, [views[v].cmLines EXCEPT ![i].text = t], "characterData")

ToggleHeaderClass ==
    \E v \in {"A"} :
        \E i \in 1..Len(views[v].cmLines) :
            /\ [views[v].cmLines[i] EXCEPT !.hdr = ~@] \in RenderedNodes
            /\ Mutate(v, [views[v].cmLines EXCEPT ![i].hdr = ~@], "attributes")

SetFlashing ==
    /\ flashing' = ~flashing
    /\ UNCHANGED <<probing, variant, settings, activeLeaf, views, passes>>

\* the user closes the active leaf or activates a markdown view; a leaf that is
\* not a markdown view is active only from the start
SwitchLeaf ==
    /\ \E l \in {"none", "A", "N"} \ {activeLeaf} : activeLeaf' = l
    /\ UNCHANGED <<probing, variant, settings, flashing, views, passes>>

(***************************************************************************)
(* Initial states.                                                         *)
(***************************************************************************)
DefaultScrollDelayMs == 100

\* the settings a variant knows; v1 always pads, v1 and v2 always move the
\* cursor and scroll with behavior 'auto'
SettingsOf(var) ==
    [scrollDelayMs : {DefaultScrollDelayMs},
     enableAdjustPaddingForNonScrollable : IF var = "v1" THEN {TRUE} ELSE BOOLEAN,
     moveCursorToFirstHeader : IF var = "v3" THEN BOOLEAN ELSE {TRUE},
     enableSmoothScroll : IF var = "v3" THEN BOOLEAN ELSE {FALSE}]

\* DEFAULT_SETTINGS but for the padding switch
DefaultButPadding(var) ==
    {st \in SettingsOf(var) :
        st.moveCursorToFirstHeader /\ (st.enableSmoothScroll <=> var = "v3")}

BaseView ==
    [hasEditor |-> TRUE, mode |-> "source", doc |-> <<Plain, Heading>>,
     cmLines |-> <<[text |-> Plain, hdr |-> FALSE], [text |-> Heading, hdr |-> FALSE]>>,
     cursor |-> [line |-> 0, ch |-> 0], scrollTop |-> 0, previewScrollTop |-> 0,
     editorPad |-> 0, previewPad |-> 0, clientHeight |-> 2,
     hasViewContent |-> TRUE, hasCmSizer |-> TRUE, hasPreviewView |-> TRUE,
     hasCmContent |-> TRUE, hasScroller |-> TRUE,
     strictGetLine |-> TRUE, previewHeader |-> Null, previewCmLines |-> 0]

NoEditorView == [BaseView EXCEPT !.hasEditor = FALSE]

\* the open pass under host activity: the DOM of view A starts in any state
InitViews ==
    {[v \in Views |-> IF v = "A" THEN [BaseView EXCEPT !.mode = m, !.cmLines = d]
                      ELSE IF v = "B" THEN BaseView ELSE NoEditorView] :
        m \in {"source"}, d \in SeqsUpTo(RenderedNodes, MaxRendered)}

Init ==
    /\ variant \in Variants
    /\ settings \in DefaultButPadding(variant)
    /\ activeLeaf \in {"none", "other", "A", "N"}
    /\ flashing \in BOOLEAN
    /\ views \in InitViews
    /\ passes = [p \in Passes |-> NoPass]
    /\ probing = FALSE

Next ==
    \/ FileOpen
    \/ LayoutReady
    \/ \E p \in Passes : ObserverCallback(p)
    \/ \E p \in Passes : RafFire(p)
    \/ \E p \in Passes : TimerFire(p)
    \/ \E p \in Passes : DelayFire(p)
    \/ AddLine
    \/ RemoveLine
    \/ EditText
    \/ ToggleHeaderClass
    \/ SetFlashing
    \/ SwitchLeaf

Spec == Init /\ [][Next]_vars

(***************************************************************************)
(* Properties of the open handler.                                         *)
(***************************************************************************)
\* the place of the first entry what in the log of a pass, 0 if there is none
Pos(pass, what) ==
    IF InLog(pass, what)
    THEN CHOOSE i \in 1..Len(pass.log) :
             pass.log[i] = what /\ \A j \in 1..(i - 1) : pass.log[j] # what
    ELSE 0

Before(pass, a, b) == Pos(pass, a) > 0 /\ Pos(pass, b) > 0 /\ Pos(pass, a) < Pos(pass, b)

\* a leaf the handler accepts: a MarkdownView with an editor
ValidLeaf(leaf) == leaf \notin {"none", "other"} /\ views[leaf].hasEditor

\* C2: a pass whose wait completed while the flashing indicator was present
\* never changes a padding, never scrolls, never moves the cursor and has
\* nothing scheduled, then or later.
C2_FlashingSuppresses ==
    \A p \in Passes :
        passes[p].waitFlash = "yes" =>
            /\ ~InLog(passes[p], "adjustPadding")
            /\ ~InLog(passes[p], "pad")
            /\ ~InLog(passes[p], "scrollToFirstHeader")
            /\ ~InLog(passes[p], "scroll")
            /\ ~InLog(passes[p], "cursor")
            /\ passes[p].delays = 0 /\ passes[p].rafs = 0 /\ passes[p].timers = 0

\* a pass was suppressed by the observer's callback, the indicator has gone
\* since, and a later mutation of the DOM left a header detectable
C2_Witness ==
    \E p \in Passes :
        /\ passes[p].waitFlash = "yes"
        /\ passes[p].viaCallback
        /\ ~flashing
        /\ hasHeader(views[passes[p].view].cmLines)

\* C3: for every event callScroll, the timer callback and scrollToFirstHeader
\* run at most once, and the observer is disconnected once callScroll has run.
C3_AtMostOnePass ==
    \A p \in Passes :
        /\ CountLog(passes[p], "callScroll") <= 1
        /\ CountLog(passes[p], "timer") <= 1
        /\ CountLog(passes[p], "scrollToFirstHeader") <= 1
        /\ InLog(passes[p], "callScroll") => ~passes[p].connected

\* the first pass called callScroll from the synchronous check; the second,
\* opened later on the same view, waited and was completed by its observer:
\* the DOM was mutated, observably, after the first pass's callScroll
C3_Witness ==
    /\ variant = "v3"
    /\ passes[1].view = "A" /\ passes[2].view = "A"
    /\ InLog(passes[1], "callScroll") /\ ~passes[1].viaCallback
    /\ InLog(passes[2], "callScroll") /\ passes[2].viaCallback
    /\ Executed(passes[1]) /\ Executed(passes[2])

\* C9 as stated: with padding enabled the scroll step of every pass comes
\* after the padding, one animation frame and then a timer.
C9_Original ==
    \A p \in Passes :
        Executed(passes[p]) /\ settings.enableAdjustPaddingForNonScrollable =>
            /\ Before(passes[p], "adjustPadding", "raf")
            /\ Before(passes[p], "raf", "timer")
            /\ Before(passes[p], "timer", "scrollToFirstHeader")

\* C9, amended: with padding enabled adjustPadding (and the padding change it
\* makes) comes before the scroll step of the same pass; in the observer-based
\* handler an animation frame and then the timer lie between them.
C9_PaddingBeforeScroll ==
    \A p \in Passes :
        Executed(passes[p]) /\ settings.enableAdjustPaddingForNonScrollable =>
            /\ Before(passes[p], "adjustPadding", "scrollToFirstHeader")
            /\ InLog(passes[p], "pad") => Before(passes[p], "pad", "scrollToFirstHeader")
            /\ InLog(passes[p], "scroll") => Before(passes[p], "adjustPadding", "scroll")
            /\ variant = "v3" =>
                  /\ Before(passes[p], "adjustPadding", "raf")
                  /\ Before(passes[p], "raf", "timer")
                  /\ Before(passes[p], "timer", "scrollToFirstHeader")

\* a pass of the observer-based handler padded, waited for the frame and the
\* timer, and scrolled
C9_Witness ==
    \E p \in Passes :
        /\ variant = "v3"
        /\ InLog(passes[p], "pad")
        /\ InLog(passes[p], "raf")
        /\ InLog(passes[p], "scroll")

\* C10: an event that arrives without an active leaf, on a view that is not a
\* markdown view or on a view without editor is rejected: nothing is observed
\* or scheduled and the pass never has any effect.
C10_RejectedStaysIdle ==
    \A p \in Passes :
        passes[p].status # "none" /\ ~ValidLeaf(passes[p].leaf) =>
            /\ passes[p].status = "rejected"
            /\ passes[p].log = << >>
            /\ ~passes[p].connected
            /\ passes[p].delays = 0 /\ passes[p].rafs = 0 /\ passes[p].timers = 0
            /\ passes[p].target = "none"

\* the first event came on a view without editor and was rejected; a later
\* event was accepted and its pass scrolled
C10_Witness ==
    /\ passes[1].status = "rejected" /\ passes[1].leaf = "N"
    /\ passes[2].status = "accepted" /\ InLog(passes[2], "scroll")

(***************************************************************************)
(* Liveness of the pass.  The host runs every callback it has scheduled:   *)
(* the callback of an observer with queued records runs before any other   *)
(* task (weak fairness: it stays due until it runs); an animation frame or *)
(* a timer runs once the tasks before it have ended, however often an      *)
(* observer's callback was due in between (strong fairness).  Every        *)
(* callback is scheduled once, so fairness of the callbacks together is    *)
(* fairness of each.  The events arrive on view A, in editing or in        *)
(* preview mode.                                                           *)
(***************************************************************************)
InitViewsLive ==
    {[v \in Views |-> IF v = "A" THEN [BaseView EXCEPT !.mode = m, !.cmLines = d]
                      ELSE IF v = "B" THEN BaseView ELSE NoEditorView] :
        m \in {"source", "preview"}, d \in SeqsUpTo(RenderedNodes, MaxRendered)}

InitLive ==
    /\ variant \in Variants
    /\ settings \in DefaultButPadding(variant)
    /\ activeLeaf = "A"
    /\ flashing \in BOOLEAN
    /\ views \in InitViewsLive
    /\ passes = [p \in Passes |-> NoPass]
    /\ probing = TRUE

\* the events whose passes the liveness check follows
LiveFileOpen == passes[MaxLiveEvents].status = "none" /\ FileOpen
LiveLayoutReady == passes[MaxLiveEvents].status = "none" /\ LayoutReady

NextLive ==
    \/ LiveFileOpen
    \/ LiveLayoutReady
    \/ \E p \in Passes : ObserverCallback(p)
    \/ \E p \in Passes : RafFire(p)
    \/ \E p \in Passes : TimerFire(p)
    \/ \E p \in Passes : DelayFire(p)
    \/ AddLine
    \/ RemoveLine
    \/ EditText
    \/ ToggleHeaderClass
    \/ SetFlashing

FairSpec ==
    /\ InitLive
    /\ [][NextLive]_vars
    /\ WF_vars(\E p \in Passes : ObserverCallback(p))
    /\ SF_vars(\E p \in Passes : RafFire(p) \/ TimerFire(p) \/ DelayFire(p))

ViewportHeights == {1, 4}

\* every earlier pass has finished
Idle == \A q \in Passes : passes[q].status = "none" \/ Finished(passes[q])

PassDocs == {<<Heading>>, <<Plain>>, <<Plain, Heading>>}

PassViews ==
    {[BaseView EXCEPT !.mode = c.mode, !.doc = c.doc, !.cmLines = c.dom,
                      !.clientHeight = c.h, !.hasScroller = c.sc,
                      !.strictGetLine = c.g, !.previewHeader = c.ph,
                      !.previewCmLines = c.pc] :
        c \in {c \in [mode : Modes, doc : PassDocs, dom : SeqsUpTo(HostNodes, MaxLines),
                      h : ViewportHeights, sc : BOOLEAN, g : BOOLEAN,
                      ph : {Null, 0, 1}, pc : {0, MaxLines}] :
                  /\ c.mode # "preview" => c.ph = Null /\ c.pc = 0
                  /\ c.ph < Len(c.doc)
                  /\ Len(c.dom) <= Len(c.doc) => c.g}}

InitPass ==
    /\ variant \in Variants
    /\ settings \in SettingsOf(variant)
    /\ activeLeaf = "A"
    /\ flashing = FALSE
    /\ views \in {[v \in Views |-> IF v = "A" THEN a
                                   ELSE IF v = "B" THEN BaseView ELSE NoEditorView] :
                     a \in {a \in PassViews :
                              /\ variant # "v3" => a.hasScroller /\ a.strictGetLine
                              /\ variant # "v3" => a.previewCmLines = 0}}
    /\ passes = [p \in Passes |-> NoPass]
    /\ probing = TRUE

FileOpenWhenIdle == Idle /\ FileOpen
LayoutReadyWhenIdle == Idle /\ LayoutReady

NextPass ==
    \/ FileOpenWhenIdle
    \/ LayoutReadyWhenIdle
    \/ \E p \in Passes : RafFire(p)
    \/ \E p \in Passes : TimerFire(p)
    \/ \E p \in Passes : DelayFire(p)

SpecPass == InitPass /\ [][NextPass]_vars

\* the cursor every pass over a document at rest starts from
StartCursor == BaseView.cursor

\* C6: with moveCursorToFirstHeader off, no pass calls setCursor and the
\* editor's cursor stays where it was before the pass, in every display mode.
C6_CursorKeptWhenOff ==
    ~settings.moveCursorToFirstHeader =>
        /\ \A v \in Views : views[v].cursor = StartCursor
        /\ \A p \in Passes : ~InLog(passes[p], "cursor")

\* a pass with the setting off located a header and scrolled to it
C6_Witness ==
    /\ ~settings.moveCursorToFirstHeader
    /\ \E p \in Passes :
          /\ Executed(passes[p])
          /\ InLog(passes[p], "scroll")
          /\ views[passes[p].target].mode \in {"source", "live"}
          /\ findFirstHeaderLine(passes[p].scanned) # Null

\* C7: a pass that runs on the document another completed pass ran on, with
\* nothing changed in between, leaves the scroll offsets, the cursor and the
\* paddings as that pass left them, and has the same effects.
C7_SecondPassSameState ==
    \A p \in Passes, q \in Passes :
        /\ p < q
        /\ Executed(passes[p]) /\ Executed(passes[q])
        /\ passes[q].alone
        /\ passes[p].target = passes[q].target
        => /\ passes[q].after = passes[p].after
           /\ passes[q].log = passes[p].log

\* two passes ran in succession; both padded, moved the cursor and scrolled
\* to an offset other than the top
C7_Witness ==
    \E p \in Passes, q \in Passes :
        /\ p < q
        /\ Executed(passes[p]) /\ Executed(passes[q])
        /\ passes[q].alone
        /\ InLog(passes[q], "pad") /\ InLog(passes[q], "cursor") /\ InLog(passes[q], "scroll")
        /\ passes[q].after[1] > 0
        /\ passes[q].after[4] > 0

\* the line the editor branch of a pass located, Null if it located none
LocatedLine(pass) ==
    IF variant = "v3" THEN findFirstHeaderLine(pass.scanned)
    ELSE ScanRegex(views[pass.target].doc, 1)

\* C8: when the located line index has no rendered .cm-line, the pass issues
\* no scroll, raises nothing and leaves the scroll offset alone.
C8_UnresolvedLineNoOp ==
    \A p \in Passes :
        /\ Executed(passes[p])
        /\ passes[p].target # "none"
        /\ views[passes[p].target].mode \in {"source", "live"}
        /\ LocatedLine(passes[p]) # Null
        /\ LocatedLine(passes[p]) >= Len(passes[p].scanned)
        => /\ ~InLog(passes[p], "scroll")
           /\ ~InLog(passes[p], "throw")
           /\ passes[p].after[1] = BaseView.scrollTop

\* a pass located a line that is not rendered, after moving the cursor to it
C8_Witness ==
    \E p \in Passes :
        /\ Executed(passes[p])
        /\ passes[p].target # "none"
        /\ views[passes[p].target].mode \in {"source", "live"}
        /\ LocatedLine(passes[p]) # Null
        /\ LocatedLine(passes[p]) >= Len(passes[p].scanned)
        /\ InLog(passes[p], "cursor")

(***************************************************************************)
(* The locator over line texts.  A document has up to MaxLines lines; one  *)
(* of them is any text of up to MaxLineLen characters, with or without the *)
(* heading class, the others are the host's plain, heading and hashtag     *)
(* lines.  The source and live modes are taken; the rendered lines are the *)
(* document's lines until the host removes lines from the end.             *)
(***************************************************************************)
LocTexts == SeqsUpTo(Chars, MaxLineLen)

LocNodes == [text : LocTexts, hdr : BOOLEAN]

\* the documents of the editor-line scan (v1, v2)
LocDocs ==
    UNION {{[d EXCEPT ![i] = t] : i \in 1..Len(d), t \in LocTexts} :
              d \in SeqsUpTo(HostTexts, MaxLines)}

\* the rendered lines findFirstHeaderLine reads (v3)
LocDoms ==
    UNION {{[d EXCEPT ![i] = n] : i \in 1..Len(d), n \in LocNodes} :
              d \in SeqsUpTo(HostNodes, MaxLines)}

Unmarked(texts) == [i \in 1..Len(texts) |-> [text |-> texts[i], hdr |-> FALSE]]

LocViews(var) ==
    IF var = "v3"
    THEN {[BaseView EXCEPT !.mode = m, !.doc = TextContents(d), !.cmLines = d] :
             m \in {"source", "live"}, d \in LocDoms}
    ELSE {[BaseView EXCEPT !.mode = m, !.doc = d, !.cmLines = Unmarked(d)] :
             m \in {"source", "live"}, d \in LocDocs}

InitLocate ==
    /\ variant \in Variants
    /\ settings \in {st \in DefaultButPadding(variant) :
                        st.enableAdjustPaddingForNonScrollable <=> variant = "v1"}
    /\ activeLeaf = "A"
    /\ flashing = FALSE
    /\ views \in {[v \in Views |-> IF v = "A" THEN a
                                   ELSE IF v = "B" THEN BaseView ELSE NoEditorView] :
                     a \in LocViews(variant)}
    /\ passes = [p \in Passes |-> NoPass]
    /\ probing = TRUE

NextLocate ==
    \/ FileOpenWhenIdle
    \/ \E p \in Passes : ObserverCallback(p)
    \/ \E p \in Passes : TimerFire(p)
    \/ \E p \in Passes : DelayFire(p)
    \/ RemoveLine

SpecLocate == InitLocate /\ [][NextLocate]_vars

\* text reads: whitespace, then one or more '#', then a whitespace character
MatchesHeadingPattern(text) ==
    \E i \in 0..Len(text), j \in 1..Len(text) :
        /\ i + j + 1 <= Len(text)
        /\ \A k \in 1..i : text[k] = " "
        /\ \A k \in (i + 1)..(i + j) : text[k] = "#"
        /\ text[i + j + 1] = " "

\* text reads: whitespace, then a run of '#' that ends the line or is followed
\* by a character that is not whitespace
HashRunWithoutSpace(text) ==
    \E i \in 0..Len(text), j \in 1..Len(text) :
        /\ i + j <= Len(text)
        /\ \A k \in 1..i : text[k] = " "
        /\ \A k \in (i + 1)..(i + j) : text[k] = "#"
        /\ i + j = Len(text) \/ text[i + j + 1] \notin {"#", " "}

\* the lowest index (from 0) of a line matching the pattern, Null without one
LowestMatch(texts) ==
    IF \E i \in 1..Len(texts) : MatchesHeadingPattern(texts[i])
    THEN (CHOOSE i \in 1..Len(texts) :
              /\ MatchesHeadingPattern(texts[i])
              /\ \A k \in 1..(i - 1) : ~MatchesHeadingPattern(texts[k])) - 1
    ELSE Null

\* the line texts the locator of a pass read
ScannedTexts(pass) ==
    IF variant = "v3" THEN TextContents(pass.scanned) ELSE views[pass.target].doc

\* the line a pass selected as the first header: the line its setCursor call
\* named, Null when it made no such call
Selected(pass) == IF InLog(pass, "cursor") THEN pass.after[3].line ELSE Null

\* the locator of a pass took its answer from the regex scan
ByRegexScan(pass) ==
    variant = "v3" => \A i \in 1..Len(pass.scanned) : ~pass.scanned[i].hdr

\* C4 as stated: whatever the lines, the locator selects the lowest index whose
\* text matches the pattern, and none when no text matches.
C4_Original ==
    \A p \in Passes :
        Executed(passes[p]) => Selected(passes[p]) = LowestMatch(ScannedTexts(passes[p]))

\* C4: the editor-line scan of the fixed-delay handlers, and findFirstHeaderLine
\* when no rendered line carries the heading class, select the lowest index
\* whose text matches the pattern, and none when no text matches.
C4_LowestMatchingLine ==
    \A p \in Passes :
        Executed(passes[p]) /\ ByRegexScan(passes[p])
        => Selected(passes[p]) = LowestMatch(ScannedTexts(passes[p]))

\* the regex scan selected the earlier of two matching lines, the later one
\* being of a higher heading level (fewer '#')
C4_Witness ==
    \E p \in Passes :
        /\ Executed(passes[p]) /\ ByRegexScan(passes[p])
        /\ Selected(passes[p]) # Null
        /\ LET texts == ScannedTexts(passes[p])
               sel == Selected(passes[p]) + 1
           IN  \E k \in (sel + 1)..Len(texts) :
                   /\ MatchesHeadingPattern(texts[k])
                   /\ texts[sel] = <<"#", "#", " ">>
                   /\ texts[k] = Heading

\* C5: the regex scan never selects a line whose run of '#' is followed by a
\* non-whitespace character or by the end of the line, and such a line does not
\* end the scan: a matching line after it is still found.
C5_HashtagLineSkipped ==
    \A p \in Passes :
        Executed(passes[p]) /\ ByRegexScan(passes[p])
        => LET texts == ScannedTexts(passes[p])
           IN  \A i \in 1..Len(texts) :
                   HashRunWithoutSpace(texts[i])
                   => /\ Selected(passes[p]) # i - 1
                      /\ (\E k \in (i + 1)..Len(texts) : MatchesHeadingPattern(texts[k]))
                         => Selected(passes[p]) # Null

\* the regex scan passed a line whose '#' run has no whitespace after it and
\* selected a later line
C5_Witness ==
    \E p \in Passes :
        /\ Executed(passes[p]) /\ ByRegexScan(passes[p])
        /\ \E i \in 1..Len(ScannedTexts(passes[p])) :
              /\ HashRunWithoutSpace(ScannedTexts(passes[p])[i])
              /\ Selected(passes[p]) > i - 1

(***************************************************************************)
(* The wait for content of the observer-based handler.                     *)
(***************************************************************************)
\* an effect of the pass on the view, or the call that leads to one
HasActed(pass) ==
    \/ InLog(pass, "callScroll") \/ InLog(pass, "adjustPadding") \/ InLog(pass, "pad")
    \/ InLog(pass, "scrollToFirstHeader") \/ InLog(pass, "cursor") \/ InLog(pass, "scroll")

\* C11: in the observer-based handler a pass that has not called callScroll has
\* changed no padding, scrolled nothing, moved no cursor and has no frame or
\* timer pending, its observer still connected; and the step in which a pass
\* calls callScroll is taken in a state where a header is detectable in the
\* editor element of its view.  So a pass whose view never shows a header
\* stays waiting and never pads or scrolls.
C11_NoEffectBeforeHeader ==
    /\ [](\A p \in Passes :
             variant = "v3" /\ passes[p].status = "accepted" /\ passes[p].waitFlash = "unset"
             => /\ ~HasActed(passes[p])
                /\ passes[p].connected
                /\ passes[p].rafs = 0 /\ passes[p].timers = 0)
    /\ [][\A p \in Passes :
             variant = "v3" /\ ~HasActed(passes[p]) /\ HasActed(passes'[p])
             => hasHeader(views[passes'[p].view].cmLines)]_vars

\* one pass waited, was completed by its observer and moved the cursor; another
\* is waiting on rendered lines none of which is a header
C11_Witness ==
    /\ variant = "v3"
    /\ \E p \in Passes :
          passes[p].viaCallback /\ InLog(passes[p], "cursor")
    /\ \E q \in Passes :
          /\ passes[q].status = "accepted" /\ passes[q].connected
          /\ passes[q].log = <<"observe">>
          /\ Len(views[passes[q].view].cmLines) > 0

(***************************************************************************)
(* Events in quick succession: no indicator is flashing, the view stays    *)
(* active, the host only adds lines; events arrive at any moment, also     *)
(* while earlier passes have their frame or timer pending.                 *)
(***************************************************************************)
InitRapid ==
    /\ variant \in Variants
    /\ settings \in DefaultButPadding(variant)
    /\ activeLeaf = "A"
    /\ flashing = FALSE
    /\ views \in {[v \in Views |-> IF v = "A" THEN [BaseView EXCEPT !.mode = m, !.cmLines = d]
                                   ELSE IF v = "B" THEN BaseView ELSE NoEditorView] :
                     m \in Modes, d \in SeqsUpTo(RenderedNodes, MaxRendered)}
    /\ passes = [p \in Passes |-> NoPass]
    /\ probing = TRUE

NextRapid ==
    \/ FileOpen
    \/ LayoutReady
    \/ \E p \in Passes : ObserverCallback(p)
    \/ \E p \in Passes : RafFire(p)
    \/ \E p \in Passes : TimerFire(p)
    \/ \E p \in Passes : DelayFire(p)
    \/ AddLine

SpecRapid == InitRapid /\ [][NextRapid]_vars

\* the callbacks a pass has scheduled and not yet run
PendingCallbacks(pass) == pass.delays + pass.rafs + pass.timers

\* C12: every accepted event keeps its own pass whatever events arrive after
\* it: the pass is waiting for a header with its observer connected, or has
\* exactly one callback pending, or has run the scroll step exactly once.  So
\* when all passes have finished, each accepted event has had its scroll step.
C12_EachEventItsOwnPass ==
    /\ \A p \in Passes :
          passes[p].status = "accepted" =>
              \/ /\ variant = "v3" /\ passes[p].connected
                 /\ PendingCallbacks(passes[p]) = 0 /\ ~Executed(passes[p])
              \/ /\ ~passes[p].connected
                 /\ PendingCallbacks(passes[p]) = 1 /\ ~Executed(passes[p])
              \/ /\ ~passes[p].connected
                 /\ PendingCallbacks(passes[p]) = 0
                 /\ CountLog(passes[p], "scrollToFirstHeader") = 1
    /\ (\A p \in Passes : Finished(passes[p]))
          => Cardinality({p \in Passes : Executed(passes[p])}) = MaxEvents

\* every event arrived while the pass before it was pending, and every pass
\* has run its scroll step
C12_Witness ==
    /\ \A p \in Passes : Executed(passes[p])
    /\ \A p \in Passes \ {1} : ~passes[p].alone
    /\ \E p \in Passes : passes[p].viaCallback

(***************************************************************************)
(* Two markdown views, A and B, each showing a document whose heading is   *)
(* on the second line, in a viewport of one line; the user goes from one   *)
(* to the other, or closes the active leaf, while passes are pending.      *)
(***************************************************************************)
\* the user activates the other markdown view or closes the active leaf
ActivateLeaf ==
    /\ \E l \in {"none", "A", "B"} \ {activeLeaf} : activeLeaf' = l
    /\ UNCHANGED <<probing, variant, settings, flashing, views, passes>>

SwitchView == [BaseView EXCEPT !.clientHeight = 1]

InitSwitch ==
    /\ variant \in Variants
    /\ settings \in DefaultButPadding(variant)
    /\ activeLeaf \in {"A", "B"}
    /\ flashing = FALSE
    /\ views = [v \in Views |-> IF v = "N" THEN NoEditorView ELSE SwitchView]
    /\ passes = [p \in Passes |-> NoPass]
    /\ probing = TRUE

NextSwitch ==
    \/ FileOpen
    \/ LayoutReady
    \/ \E p \in Passes : RafFire(p)
    \/ \E p \in Passes : TimerFire(p)
    \/ \E p \in Passes : DelayFire(p)
    \/ ActivateLeaf

SpecSwitch == InitSwitch /\ [][NextSwitch]_vars

\* the view whose header a pass looks up, whose cursor it moves and which it
\* scrolls: the captured view; in the first iteration the view active then
ScrollViewOf(pass) ==
    IF variant = "v1" THEN getActiveMarkdownLeaf(pass.activeAtScroll) ELSE pass.view

\* C13 as stated, for the present handler: a pass acts on the view that is
\* active when its scroll step runs.
C13_Original ==
    \A p \in Passes :
        variant = "v3" /\ Executed(passes[p]) /\ passes[p].activeAtScroll \in Views
        => /\ passes[p].target = passes[p].activeAtScroll
           /\ InLog(passes[p], "pad") => views[passes[p].activeAtScroll].editorPad > 0

\* C13: padding is always applied to the view captured when the event arrived;
\* header lookup, cursor move and scroll go to that captured view too, except
\* in the first iteration of the plugin, where they go to the view active when
\* the timer fires (and to none when no markdown view is active then).  A view
\* that no pass captured is never padded, a view that is not the scroll view
\* of some pass is never scrolled and keeps its cursor.
C13_ActsOnCapturedView ==
    /\ \A p \in Passes :
          passes[p].status = "accepted" => passes[p].view = passes[p].leaf
    /\ \A p \in Passes :
          Executed(passes[p]) => passes[p].target = ScrollViewOf(passes[p])
    /\ \A x \in Views :
          views[x].editorPad > 0 \/ views[x].previewPad > 0
          => \E p \in Passes : passes[p].view = x /\ InLog(passes[p], "pad")
    /\ \A x \in Views :
          views[x].scrollTop > 0 \/ views[x].cursor # StartCursor
          => \E p \in Passes : Executed(passes[p]) /\ ScrollViewOf(passes[p]) = x

\* an event arrived on one view, the user went to the other, and the pass then
\* padded and scrolled the view it had captured, leaving the active one alone
C13_Witness ==
    \E p \in Passes :
        /\ variant # "v1"
        /\ passes[p].leaf \in {"A", "B"}
        /\ passes[p].activeAtScroll \in {"A", "B"} \ {passes[p].leaf}
        /\ InLog(passes[p], "pad") /\ InLog(passes[p], "scroll")
        /\ views[passes[p].leaf].scrollTop > 0
        /\ views[passes[p].activeAtScroll].scrollTop = 0
        /\ views[passes[p].activeAtScroll].editorPad = 0

(***************************************************************************)
(* Headroom of the padding.                                                *)
(***************************************************************************)
\* a pass padded the editor and then scrolled to a located, rendered line
PaddedAndScrolled(pass) ==
    /\ Executed(pass)
    /\ InLog(pass, "pad") /\ InLog(pass, "scroll")
    /\ views[pass.target].mode \in {"source", "live"}
    /\ LocatedLine(pass) # Null

\* C14 as stated: once a pass has padded the editor, the lines from the first
\* heading on, together with the bottom padding, fill the viewport, so that
\* the heading's top edge reaches the top of the visible region: the scroll
\* offset the pass leaves is the heading's offset.
C14_Headroom ==
    \A p \in Passes :
        PaddedAndScrolled(passes[p])
        => passes[p].after[1] = LineTop(LocatedLine(passes[p]))

\* the observer-based handler padded by clientHeight / 1.5 and scrolled, and
\* the heading stopped short of the top of the viewport
C14_Witness ==
    \E p \in Passes :
        /\ variant = "v3"
        /\ PaddedAndScrolled(passes[p])
        /\ passes[p].after[4] > 0
        /\ passes[p].after[1] < LineTop(LocatedLine(passes[p]))

(***************************************************************************)
(* Containment of failures.                                                *)
(***************************************************************************)
\* C15 as stated: no exception raised by an operation of a pass leaves the
\* pass's timer or observer callback.
C15_FailuresContained ==
    \A p \in Passes : ~InLog(passes[p], "throw")

\* in the observer-based handler editor.getLine() raised for the located line,
\* the exception left the timer callback, and the pass neither moved the cursor
\* nor scrolled
C15_Witness ==
    \E p \in Passes :
        /\ variant = "v3"
        /\ Executed(passes[p])
        /\ InLog(passes[p], "throw")
        /\ ~InLog(passes[p], "cursor") /\ ~InLog(passes[p], "scroll")
        /\ LocatedLine(passes[p]) >= Len(views[passes[p].target].doc)

(***************************************************************************)
(* The renderer's classification.                                          *)
(***************************************************************************)
\* the lowest index (from 0) of a line carrying the heading class, Null
\* without one
FirstMarked(lines) ==
    IF \E i \in 1..Len(lines) : lines[i].hdr
    THEN (CHOOSE i \in 1..Len(lines) :
              lines[i].hdr /\ \A k \in 1..(i - 1) : ~lines[k].hdr) - 1
    ELSE Null

\* C16: when a rendered line carries the heading class, findFirstHeaderLine
\* selects the first such line, whatever the texts of the lines before it; a
\* line without the class is selected only when no line carries it, and then
\* its text matches the heading pattern.
C16_MarkedLinePreferred ==
    \A p \in Passes :
        variant = "v3" /\ Executed(passes[p])
        => IF FirstMarked(passes[p].scanned) # Null
           THEN Selected(passes[p]) = FirstMarked(passes[p].scanned)
           ELSE Selected(passes[p]) # Null
                => MatchesHeadingPattern(passes[p].scanned[Selected(passes[p]) + 1].text)

\* a line reading '# a' without the class came first, a line with the class
\* after it, and the pass selected the latter
C16_Witness ==
    \E p \in Passes :
        /\ variant = "v3" /\ Executed(passes[p])
        /\ Len(passes[p].scanned) = 2
        /\ passes[p].scanned[1] = [text |-> Heading, hdr |-> FALSE]
        /\ passes[p].scanned[2].hdr
        /\ Selected(passes[p]) = 1

(***************************************************************************)
(* Padding with elements absent: passes one after another over a document  *)
(* at rest whose container lacks any of .view-content, .cm-sizer,          *)
(* .markdown-preview-view, .cm-content.cm-lineWrapping.                     *)
(***************************************************************************)
PadViews ==
    {[BaseView EXCEPT !.mode = c.mode, !.clientHeight = c.h,
                      !.hasViewContent = c.vc, !.hasCmSizer = c.sz,
                      !.hasPreviewView = c.pv, !.hasCmContent = c.cc] :
        c \in [mode : Modes, h : ViewportHeights, vc : BOOLEAN, sz : BOOLEAN,
               pv : BOOLEAN, cc : BOOLEAN]}

InitPad ==
    /\ variant \in Variants
    /\ settings \in SettingsOf(variant)
    /\ activeLeaf = "A"
    /\ flashing = FALSE
    /\ views \in {[v \in Views |-> IF v = "A" THEN a
                                   ELSE IF v = "B" THEN BaseView ELSE NoEditorView] :
                     a \in PadViews}
    /\ passes = [p \in Passes |-> NoPass]
    /\ probing = TRUE

SpecPad == InitPad /\ [][NextPass]_vars

\* the padding step of the pass ran
PaddingStepRan(pass) == InLog(pass, "adjustPadding")
\* no bottom padding was ever written: both are as BaseView has them
EditorPadUntouched == views["A"].editorPad = BaseView.editorPad
PreviewPadUntouched == views["A"].previewPad = BaseView.previewPad
\* the element the mode of the view displays its content in is absent
ModeElementMissing ==
    IF variant = "v3"
    THEN \/ ~views["A"].hasViewContent
         \/ views["A"].mode \in {"source", "live"} /\ ~views["A"].hasCmSizer
         \/ views["A"].mode = "preview" /\ ~views["A"].hasPreviewView
    ELSE ~views["A"].hasCmContent

\* C17 as stated: when the element expected for the view (.view-content, the
\* mode's .cm-sizer or .markdown-preview-view, or .cm-content.cm-lineWrapping)
\* is missing, the padding step changes no padding and the pass goes on to the
\* scroll step without an error.
C17_Original ==
    \A p \in Passes :
        PaddingStepRan(passes[p]) /\ ModeElementMissing
        => /\ EditorPadUntouched /\ PreviewPadUntouched
           /\ ~InLog(passes[p], "throw")
           /\ Finished(passes[p]) => Executed(passes[p])

\* C17: the padding step writes the padding of exactly the elements that are
\* present (the latest variant: .cm-sizer and .markdown-preview-view, each only
\* with .view-content; the earlier ones: .cm-content.cm-lineWrapping), so a
\* missing element leaves its own padding alone but not that of the other one;
\* no error is raised and the pass goes on to the scroll step.
C17_PadsPresentElementsOnly ==
    \A p \in Passes :
        PaddingStepRan(passes[p])
        => /\ IF variant = "v3"
              THEN /\ EditorPadUntouched
                        <=> ~(views["A"].hasViewContent /\ views["A"].hasCmSizer)
                   /\ PreviewPadUntouched
                        <=> ~(views["A"].hasViewContent /\ views["A"].hasPreviewView)
              ELSE /\ EditorPadUntouched <=> ~views["A"].hasCmContent
                   /\ PreviewPadUntouched
           /\ ~InLog(passes[p], "throw")
           /\ Finished(passes[p]) => Executed(passes[p])

\* a pass over a source-mode view without .cm-sizer has finished: the editor's
\* padding is untouched, that of .markdown-preview-view was written, and the
\* scroll step ran
C17_Witness ==
    \E p \in Passes :
        /\ variant = "v3" /\ PaddingStepRan(passes[p])
        /\ Finished(passes[p]) /\ Executed(passes[p])
        /\ views["A"].mode = "source"
        /\ views["A"].hasViewContent /\ ~views["A"].hasCmSizer
        /\ EditorPadUntouched /\ ~PreviewPadUntouched

(***************************************************************************)
(* The cursor and the scroll target.                                       *)
(***************************************************************************)
\* line n (from 0) of the document is a heading: its text matches the heading
\* pattern, or the rendered line n shows that text and carries the heading class
DocumentHeading(view, n, rendered) ==
    /\ n >= 0 /\ n < Len(view.doc)
    /\ \/ MatchesHeadingPattern(view.doc[n + 1])
       \/ /\ n < Len(rendered)
          /\ rendered[n + 1].text = view.doc[n + 1]
          /\ rendered[n + 1].hdr

\* C18: a pass that moved the cursor left it on the line whose index the
\* header locator returned, and that line of the document is a heading, also
\* when the rendered lines are not the document's lines.
C18_CursorOnHeading ==
    \A p \in Passes :
        InLog(passes[p], "cursor")
        => LET view == views[passes[p].target]
           IN  /\ view.cursor.line = LocatedLine(passes[p])
               /\ DocumentHeading(view, view.cursor.line, passes[p].scanned)

\* a pass moved the cursor in a view whose rendered lines are not the lines of
\* its document
C18_Witness ==
    \E p \in Passes :
        /\ InLog(passes[p], "cursor")
        /\ variant = "v3"
        /\ TextContents(passes[p].scanned) # views[passes[p].target].doc

(***************************************************************************)
(* The flashing indicator coming and going while passes wait: events on    *)
(* view A, whose editor element starts with or without a header.           *)
(***************************************************************************)
InitFlash ==
    /\ variant \in Variants
    /\ settings \in DefaultButPadding(variant)
    /\ activeLeaf = "A"
    /\ flashing \in BOOLEAN
    /\ views \in InitViews
    /\ passes = [p \in Passes |-> NoPass]
    /\ probing = TRUE

NextFlash ==
    \/ FileOpen
    \/ LayoutReady
    \/ \E p \in Passes : ObserverCallback(p)
    \/ \E p \in Passes : RafFire(p)
    \/ \E p \in Passes : TimerFire(p)
    \/ \E p \in Passes : DelayFire(p)
    \/ AddLine
    \/ SetFlashing

SpecFlash == InitFlash /\ [][NextFlash]_vars

\* the indicator was tested on entry to callScroll, ahead of the animation
\* frame and the timer of the pass
SampledAheadOfTimer(pass) ==
    /\ InLog(pass, "callScroll")
    /\ InLog(pass, "raf") => Before(pass, "callScroll", "raf")
    /\ InLog(pass, "timer") => Before(pass, "callScroll", "timer")

\* the indicator was tested in the callback of the pass's only timer
SampledInTimer(pass) == ~InLog(pass, "callScroll") /\ Pos(pass, "timer") = 1

\* a pass tests the indicator once, and one that found none is never
\* suppressed and has run its scroll step when it has nothing left to run
SampledOnceThenCommitted(pass) ==
    /\ CountLog(pass, "callScroll") <= 1
    /\ CountLog(pass, "timer") <= 1
    /\ CountLog(pass, "suppressed") <= 1
    /\ pass.waitFlash = "no" =>
          /\ ~Suppressed(pass)
          /\ Finished(pass) => Executed(pass)

\* C19 as stated: every pass tests the indicator once, when its wait
\* completes and ahead of the timer (and frame) before the scroll; having
\* found none it scrolls after the delay whatever the indicator does since.
C19_Original ==
    \A p \in Passes :
        /\ SampledOnceThenCommitted(passes[p])
        /\ passes[p].waitFlash # "unset" => SampledAheadOfTimer(passes[p])

\* C19: every pass tests the indicator once, when its wait completes, and
\* having found none it runs its scroll step whatever the indicator does
\* since.  In the observer-based handler the test comes ahead of the frame and
\* the timer; in the fixed-delay handlers it is made in the timer's callback
\* and the scroll step follows in the same callback, the indicator still
\* absent.
C19_SampledOnceThenCommitted ==
    \A p \in Passes :
        /\ SampledOnceThenCommitted(passes[p])
        /\ passes[p].waitFlash # "unset" =>
              IF variant = "v3"
              THEN SampledAheadOfTimer(passes[p])
              ELSE /\ SampledInTimer(passes[p])
                   /\ Executed(passes[p]) => ~passes[p].flashAtScroll

\* a pass found no indicator when its wait completed, the indicator appeared
\* before its timer fired, and the pass scrolled and moved the cursor all the
\* same
C19_Witness ==
    \E p \in Passes :
        /\ passes[p].waitFlash = "no"
        /\ Executed(passes[p]) /\ passes[p].flashAtScroll
        /\ InLog(passes[p], "scroll") /\ InLog(passes[p], "cursor")

(***************************************************************************)
(* The cursor and the view's mode.                                         *)
(***************************************************************************)
\* C20: a pass that moved the cursor ran its scroll step on a view in 'source'
\* or 'live' mode, had located a header line and had moveCursorToFirstHeader
\* set; a pass on a view in 'preview' mode or in a mode it does not know
\* leaves the cursor where it was, and in a mode it does not know it issues no
\* scroll and leaves the scroll offsets alone.
C20_CursorOnlyWhenEditing ==
    \A p \in Passes :
        Executed(passes[p])
        => LET view == views[passes[p].target]
           IN  /\ InLog(passes[p], "cursor")
                    => /\ view.mode \in {"source", "live"}
                       /\ LocatedLine(passes[p]) # Null
                       /\ settings.moveCursorToFirstHeader
               /\ view.mode \notin {"source", "live"}
                    => /\ ~InLog(passes[p], "cursor")
                       /\ view.cursor = StartCursor
               /\ view.mode \notin {"source", "live", "preview"}
                    => /\ ~InLog(passes[p], "scroll")
                       /\ view.scrollTop = BaseView.scrollTop
                       /\ view.previewScrollTop = BaseView.previewScrollTop

\* with moveCursorToFirstHeader set, a pass over a view in 'preview' mode
\* scrolled to the header and left the cursor, and the rendered editor lines
\* held a header it could have moved the cursor to
C20_Witness ==
    \E p \in Passes :
        /\ Executed(passes[p]) /\ settings.moveCursorToFirstHeader
        /\ views[passes[p].target].mode = "preview"
        /\ InLog(passes[p], "scroll")
        /\ findFirstHeaderLine(passes[p].scanned) # Null
        /\ views[passes[p].target].cursor = StartCursor

(***************************************************************************)
(* The life of a pass's observer in the observer-based handler.            *)
(***************************************************************************)
\* the pass was accepted and has not yet found a header
WaitingForHeader(pass) == pass.status = "accepted" /\ pass.waitFlash = "unset"

\* C21: in the observer-based handler the observer of a pass is connected
\* exactly while the pass is waiting for a header; it is connected once and
\* disconnected once, before callScroll, whether the synchronous check or the
\* callback found the header; once disconnected it is never connected again,
\* and it is disconnected only in a step taken with a header detectable, so
\* the observer of a pass whose header never appears stays connected.
C21_ObserverLifecycle ==
    /\ [](\A p \in Passes :
             variant = "v3" =>
                /\ passes[p].connected <=> WaitingForHeader(passes[p])
                /\ CountLog(passes[p], "observe") <= 1
                /\ CountLog(passes[p], "disconnect") <= 1
                /\ InLog(passes[p], "callScroll")
                      => /\ Before(passes[p], "observe", "disconnect")
                         /\ Before(passes[p], "disconnect", "callScroll")
                /\ passes[p].connected => ~InLog(passes[p], "disconnect"))
    /\ [][\A p \in Passes :
             variant = "v3" =>
                /\ InLog(passes[p], "disconnect") => ~passes'[p].connected
                /\ passes[p].connected /\ ~passes'[p].connected
                      => hasHeader(views[passes[p].view].cmLines)]_vars

\* one pass found its header in the observer's callback, disconnected, called
\* callScroll and scrolled; a later pass on the same view, whose rendered line
\* is no longer a header, is waiting with its observer connected
C21_Witness ==
    /\ variant = "v3"
    /\ \E p, q \in Passes :
          /\ passes[p].viaCallback /\ ~passes[p].connected
          /\ Before(passes[p], "disconnect", "callScroll")
          /\ Executed(passes[p])
          /\ passes[q].connected /\ WaitingForHeader(passes[q])
          /\ passes[q].view = passes[p].view
          /\ Len(views[passes[q].view].cmLines) > 0
          /\ ~hasHeader(views[passes[q].view].cmLines)

====
